---- MODULE Spec2Model ----
(***************************************************************************)
(* Model of excel_summary: header-row detection, tolerant numeric coercion *)
(* and per-column sum/average (excel_utils.py), and the HTTP view that     *)
(* composes them (views.py).                                               *)
(*                                                                         *)
(* Representation.                                                         *)
(*   - A text value is a sequence of one-character strings, so that        *)
(*     strip(), lower(), replace() and float() act on characters.          *)
(*   - A cell is a record: [t |-> "none"], [t |-> "int", v |-> n],         *)
(*     [t |-> "float", v |-> m] or [t |-> "str", s |-> chars].             *)
(*   - A Python float is held exactly, in thousandths (2.25 is 2250).      *)
(*     The inputs keep at most three fractional digits, and the numeric    *)
(*     cells of the grids are multiples of 0.25 with fewer than ten rows,  *)
(*     for which binary floating point is exact and Python's round()       *)
(*     coincides with exact round-half-to-even.                            *)
(*   - An Optional[float] is [ok |-> FALSE] or [ok |-> TRUE, v |-> m].     *)
(***************************************************************************)
EXTENDS Integers, Sequences, FiniteSets, TLC

VARIABLES pc, value, number, ws, columns, header, summary, response

vars == <<pc, value, number, ws, columns, header, summary, response>>

(***************************************************************************)
(* Bounds of the model.                                                    *)
(***************************************************************************)
MaxLen == 3
MaxRows == 6

(***************************************************************************)
(* Cell values.                                                            *)
(***************************************************************************)
None == [t |-> "none"]
IntCell(n) == [t |-> "int", v |-> n]
FloatCell(m) == [t |-> "float", v |-> m]
Str(s) == [t |-> "str", s |-> s]

NoNumber == [ok |-> FALSE]
Number(m) == [ok |-> TRUE, v |-> m]

Whitespace == {" ", "\t"}
Digits == <<"0", "1", "2", "3", "4", "5", "6", "7", "8", "9">>
DigitSet == {Digits[i] : i \in 1..10}
DigitVal(c) == (CHOOSE i \in 1..10 : Digits[i] = c) - 1

Abs(n) == IF n < 0 THEN 0 - n ELSE n

(***************************************************************************)
(* str.lower(), str.strip(), str.replace(old, new) on character sequences. *)
(***************************************************************************)
LowerChar(c) ==
    CASE c = "A" -> "a" [] c = "B" -> "b" [] c = "C" -> "c" [] c = "D" -> "d"
      [] c = "E" -> "e" [] c = "G" -> "g" [] c = "I" -> "i" [] c = "M" -> "m"
      [] c = "N" -> "n" [] c = "R" -> "r" [] c = "S" -> "s" [] c = "T" -> "t"
      [] c = "U" -> "u" [] c = "X" -> "x"
      [] OTHER -> c

Lower(s) == [i \in 1..Len(s) |-> LowerChar(s[i])]

RECURSIVE LStrip(_)
LStrip(s) == IF s # <<>> /\ Head(s) \in Whitespace THEN LStrip(Tail(s)) ELSE s

RECURSIVE RStrip(_)
RStrip(s) ==
    IF s # <<>> /\ s[Len(s)] \in Whitespace
    THEN RStrip(SubSeq(s, 1, Len(s) - 1))
    ELSE s

Strip(s) == RStrip(LStrip(s))

RECURSIVE Replace(_, _, _)
Replace(s, old, new) ==
    IF s = <<>> THEN <<>>
    ELSE (IF Head(s) = old THEN new ELSE <<Head(s)>>) \o Replace(Tail(s), old, new)

Contains(s, c) == \E i \in 1..Len(s) : s[i] = c

(***************************************************************************)
(* str(value) for int and float cells.                                     *)
(***************************************************************************)
RECURSIVE NatToStr(_)
NatToStr(n) ==
    IF n < 10 THEN <<Digits[n + 1]>>
    ELSE NatToStr(n \div 10) \o <<Digits[(n % 10) + 1]>>

IntToStr(n) == IF n < 0 THEN <<"-">> \o NatToStr(0 - n) ELSE NatToStr(n)

FracToStr(f) ==
    IF f % 100 = 0 THEN <<Digits[(f \div 100) + 1]>>
    ELSE IF f % 10 = 0
         THEN <<Digits[(f \div 100) + 1], Digits[((f \div 10) % 10) + 1]>>
         ELSE <<Digits[(f \div 100) + 1], Digits[((f \div 10) % 10) + 1],
                Digits[(f % 10) + 1]>>

FloatToStr(m) ==
    (IF m < 0 THEN <<"-">> ELSE <<>>)
        \o NatToStr(Abs(m) \div 1000) \o <<".">> \o FracToStr(Abs(m) % 1000)

ToStr(cell) ==
    CASE cell.t = "str" -> cell.s
      [] cell.t = "int" -> IntToStr(cell.v)
      [] cell.t = "float" -> FloatToStr(cell.v)

(***************************************************************************)
(* normalize_header                                                        *)
(***************************************************************************)
normalize_header(cell) ==
    IF cell.t = "none" THEN <<>> ELSE Lower(Strip(ToStr(cell)))

(***************************************************************************)
(* float(s) on a character sequence: surrounding whitespace is ignored,    *)
(* then [sign] digits [. [digits]] or [sign] . digits.  The alphabet of    *)
(* the model has no exponent, underscore, "inf" or "nan".                  *)
(***************************************************************************)
AllDigits(s) == \A i \in 1..Len(s) : s[i] \in DigitSet

RECURSIVE DigitsToNat(_)
DigitsToNat(s) ==
    IF s = <<>> THEN 0
    ELSE 10 * DigitsToNat(SubSeq(s, 1, Len(s) - 1)) + DigitVal(s[Len(s)])

FracToMilli(s) ==
    CASE Len(s) = 0 -> 0
      [] Len(s) = 1 -> 100 * DigitsToNat(s)
      [] Len(s) = 2 -> 10 * DigitsToNat(s)
      [] OTHER -> DigitsToNat(SubSeq(s, 1, 3))

ParseUnsigned(s) ==
    IF Contains(s, ".")
    THEN LET p == CHOOSE i \in 1..Len(s) : s[i] = "." /\ \A j \in 1..(i - 1) : s[j] # "."
             ip == SubSeq(s, 1, p - 1)
             fp == SubSeq(s, p + 1, Len(s))
         IN  IF AllDigits(ip) /\ AllDigits(fp) /\ Len(ip) + Len(fp) > 0
             THEN Number(1000 * DigitsToNat(ip) + FracToMilli(fp))
             ELSE NoNumber
    ELSE IF s # <<>> /\ AllDigits(s)
         THEN Number(1000 * DigitsToNat(s))
         ELSE NoNumber

ParseFloat(str) ==
    LET s == Strip(str)
    IN  IF s = <<>> THEN NoNumber
        ELSE IF Head(s) = "-"
             THEN LET r == ParseUnsigned(Tail(s))
                  IN  IF r.ok THEN Number(0 - r.v) ELSE NoNumber
             ELSE IF Head(s) = "+" THEN ParseUnsigned(Tail(s))
                  ELSE ParseUnsigned(s)

(***************************************************************************)
(* coerce_to_number                                                        *)
(***************************************************************************)
StripSymbols(s) ==
    Replace(Replace(Replace(Replace(s, "$", <<>>), "€", <<>>), "£", <<>>), " ", <<>>)

\* FixSeparators that always takes "," for a thousands separator
FixSeparators_thousands(s) ==
    IF Contains(s, ",") THEN Replace(s, ",", <<>>) ELSE s

FixSeparators(s) ==
    IF Contains(s, ",") /\ Contains(s, ".") THEN Replace(s, ",", <<>>)
    ELSE IF Contains(s, ",") /\ ~Contains(s, ".") THEN Replace(s, ",", <<".">>)
         ELSE s

coerce_to_number(v) ==
    CASE v.t = "none" -> NoNumber
      [] v.t = "int" -> Number(1000 * v.v)
      [] v.t = "float" -> Number(v.v)
      [] v.t = "str" ->
            LET s == Strip(v.s)
            IN  IF s = <<>> THEN NoNumber
                ELSE ParseFloat(FixSeparators(StripSymbols(s)))

(***************************************************************************)
(* Worksheet access.  ws is the grid: a sequence of rows, each a sequence  *)
(* of cells.  iter_rows(min_row, max_row) yields one row per index of the  *)
(* range; an index past the last row of the sheet yields a row of None.    *)
(***************************************************************************)
max_row(sheet) == Len(sheet)

BlankRow == <<None>>

iter_rows(sheet, lo, hi) ==
    [i \in 1..(IF hi >= lo THEN hi - lo + 1 ELSE 0) |->
        IF lo + i - 1 <= Len(sheet) THEN sheet[lo + i - 1] ELSE BlankRow]

\* NotEmpty by the normalized text: a whitespace-only cell counts as empty
NotEmpty_blank(cell) ==
    cell.t # "none" /\ Lower(Strip(ToStr(cell))) # <<>>

\* cell not in (None, "")
NotEmpty(cell) == ~(cell.t = "none" \/ (cell.t = "str" /\ cell.s = <<>>))

AnyNotEmpty(row) == \E i \in 1..Len(row) : NotEmpty(row[i])

(***************************************************************************)
(* A dict keeps insertion order: a sequence of [key, idx] entries; setting *)
(* an existing key replaces its value in place.                            *)
(***************************************************************************)
HasKey(d, k) == \E i \in 1..Len(d) : d[i].key = k

Lookup(d, k) == d[CHOOSE i \in 1..Len(d) : d[i].key = k].idx

DictSet(d, k, v) ==
    IF HasKey(d, k)
    THEN [i \in 1..Len(d) |-> IF d[i].key = k THEN [key |-> k, idx |-> v] ELSE d[i]]
    ELSE Append(d, [key |-> k, idx |-> v])

Keys(d) == [i \in 1..Len(d) |-> d[i].key]

\* build_header_map that keeps the first index of a repeated header
RECURSIVE build_header_map_first(_, _)
build_header_map_first(row, n) ==
    IF n = 0 THEN <<>>
    ELSE LET d == build_header_map_first(row, n - 1)
             key == Lower(Strip(IF row[n].t = "none" THEN <<>> ELSE ToStr(row[n])))
         IN  IF key # <<>> /\ ~(\E i \in 1..Len(d) : d[i].key = key)
             THEN Append(d, [key |-> key, idx |-> n - 1])
             ELSE d

\* header_map over the first n cells of row; col_idx is zero-based
RECURSIVE build_header_map(_, _)
build_header_map(row, n) ==
    IF n = 0 THEN <<>>
    ELSE LET d == build_header_map(row, n - 1)
             key == normalize_header(row[n])
         IN  IF key # <<>> THEN DictSet(d, key, n - 1) ELSE d

\* match_count over set(requested_norm): a repeated label counts once
match_count_set(requested_norm, header_map) ==
    Cardinality({requested_norm[i] : i \in
                    {j \in 1..Len(requested_norm) :
                        \E e \in 1..Len(header_map) :
                            header_map[e].key = requested_norm[j]}})

\* sum(1 for c in requested_norm if c in header_map)
RECURSIVE match_count(_, _)
match_count(requested_norm, header_map) ==
    IF requested_norm = <<>> THEN 0
    ELSE (IF HasKey(header_map, Head(requested_norm)) THEN 1 ELSE 0)
            + match_count(Tail(requested_norm), header_map)

(***************************************************************************)
(* detect_header_row                                                       *)
(***************************************************************************)
max_header_search == 5

NotFound == [found |-> FALSE, idx |-> 0, values |-> <<>>]

NoBest == [idx |-> 0, count |-> 0, values |-> <<>>]

\* best_row with the comparison ">=": a later row of equal count wins
RECURSIVE best_row_latest(_, _, _)
best_row_latest(rows, requested_norm, n) ==
    IF n = 0 THEN [idx |-> 0, count |-> 0, values |-> <<>>]
    ELSE LET best == best_row_latest(rows, requested_norm, n - 1)
             row == rows[n]
         IN  IF ~(\E i \in 1..Len(row) : NotEmpty(row[i])) THEN best
             ELSE LET mc == match_count(requested_norm,
                                        build_header_map(row, Len(row)))
                  IN  IF mc >= best.count /\ mc > 0
                      THEN [idx |-> n, count |-> mc, values |-> row]
                      ELSE best

\* first loop: best row after the first n rows of the window
RECURSIVE best_row(_, _, _)
best_row(rows, requested_norm, n) ==
    IF n = 0 THEN NoBest
    ELSE LET best == best_row(rows, requested_norm, n - 1)
             row == rows[n]
         IN  IF ~AnyNotEmpty(row) THEN best
             ELSE LET mc == match_count(requested_norm,
                                        build_header_map(row, Len(row)))
                  IN  IF mc > best.count
                      THEN [idx |-> n, count |-> mc, values |-> row]
                      ELSE best

\* second loop: first non-empty row
first_non_empty(rows) ==
    IF \E i \in 1..Len(rows) : AnyNotEmpty(rows[i])
    THEN LET i == CHOOSE i \in 1..Len(rows) :
                      AnyNotEmpty(rows[i]) /\ \A j \in 1..(i - 1) : ~AnyNotEmpty(rows[j])
         IN  [found |-> TRUE, idx |-> i, values |-> rows[i]]
    ELSE NotFound

\* detect_header_row that searches every row of the sheet
detect_header_row_whole_sheet(sheet, requested_columns) ==
    LET requested_norm == [i \in 1..Len(requested_columns) |->
                              normalize_header(requested_columns[i])]
        rows == iter_rows(sheet, 1, max_row(sheet))
        best == best_row(rows, requested_norm, Len(rows))
    IN  IF best.idx # 0 /\ best.count > 0
        THEN [found |-> TRUE, idx |-> best.idx, values |-> best.values]
        ELSE first_non_empty(rows)

detect_header_row(sheet, requested_columns) ==
    LET requested_norm == [i \in 1..Len(requested_columns) |->
                              normalize_header(requested_columns[i])]
        rows == iter_rows(sheet, 1, max_header_search)
        best == best_row(rows, requested_norm, Len(rows))
    IN  IF best.idx # 0 /\ best.count > 0
        THEN [found |-> TRUE, idx |-> best.idx, values |-> best.values]
        ELSE first_non_empty(rows)

\* round2 with an exact tie rounded away from zero
round2_half_up(num, den) ==
    LET d == 10 * den
        q == num \div d
        r == num - q * d
    IN  10 * (IF 2 * r < d THEN q
              ELSE IF 2 * r > d THEN q + 1
                   ELSE IF num >= 0 THEN q + 1 ELSE q)

(***************************************************************************)
(* round(num / den, 2) of an exact quotient of thousandths, as thousandths *)
(* (a multiple of 10): to the nearest hundredth, an exact tie to the even  *)
(* hundredth.                                                              *)
(***************************************************************************)
round2(num, den) ==
    LET d == 10 * den
        q == num \div d
        r == num - q * d
    IN  10 * (IF 2 * r < d THEN q
              ELSE IF 2 * r > d THEN q + 1
                   ELSE IF q % 2 = 0 THEN q ELSE q + 1)

(***************************************************************************)
(* summarize_excel_columns                                                 *)
(***************************************************************************)
\* the inner loop over the first n data rows: running total and count
RECURSIVE column_total(_, _, _)
column_total(rows, col_idx, n) ==
    IF n = 0 THEN [total |-> 0, count |-> 0]
    ELSE LET acc == column_total(rows, col_idx, n - 1)
             row == rows[n]
         IN  IF col_idx >= Len(row) THEN acc
             ELSE LET num == coerce_to_number(row[col_idx + 1])
                  IN  IF ~num.ok THEN acc
                      ELSE [total |-> acc.total + num.v, count |-> acc.count + 1]

column_summary(sheet, header_row_index, col_idx, col_name) ==
    LET rows == iter_rows(sheet, header_row_index + 1, max_row(sheet))
        acc == column_total(rows, col_idx, Len(rows))
    IN  IF acc.count > 0
        THEN [column |-> col_name,
              sum |-> round2(acc.total, 1),
              avg |-> round2(acc.total, acc.count)]
        ELSE [column |-> col_name, sum |-> 0, avg |-> 0]

\* requested_loop with "break" for "continue": a missing column ends the loop
RECURSIVE requested_loop_break(_, _, _, _, _)
requested_loop_break(sheet, header_row_index, header_map, cols, n) ==
    IF n = 0 THEN [summaries |-> <<>>, missing |-> <<>>]
    ELSE LET acc == requested_loop_break(sheet, header_row_index, header_map, cols, n - 1)
             col_name == cols[n]
             norm == normalize_header(col_name)
         IN  IF acc.missing # <<>> THEN acc
             ELSE IF ~HasKey(header_map, norm)
                  THEN [acc EXCEPT !.missing = Append(@, col_name)]
                  ELSE [acc EXCEPT !.summaries =
                            Append(@, column_summary(sheet, header_row_index,
                                                     Lookup(header_map, norm), col_name))]

\* requested_loop that reports a column without numeric data as missing
RECURSIVE requested_loop_no_data(_, _, _, _, _)
requested_loop_no_data(sheet, header_row_index, header_map, cols, n) ==
    IF n = 0 THEN [summaries |-> <<>>, missing |-> <<>>]
    ELSE LET acc == requested_loop_no_data(sheet, header_row_index, header_map, cols, n - 1)
             col_name == cols[n]
             norm == normalize_header(col_name)
             rows == iter_rows(sheet, header_row_index + 1, max_row(sheet))
         IN  IF ~HasKey(header_map, norm)
                \/ column_total(rows, Lookup(header_map, norm), Len(rows)).count = 0
             THEN [acc EXCEPT !.missing = Append(@, col_name)]
             ELSE [acc EXCEPT !.summaries =
                       Append(@, column_summary(sheet, header_row_index,
                                                Lookup(header_map, norm), col_name))]

\* the loop over the first n requested columns
RECURSIVE requested_loop(_, _, _, _, _)
requested_loop(sheet, header_row_index, header_map, cols, n) ==
    IF n = 0 THEN [summaries |-> <<>>, missing |-> <<>>]
    ELSE LET acc == requested_loop(sheet, header_row_index, header_map, cols, n - 1)
             col_name == cols[n]
             norm == normalize_header(col_name)
         IN  IF ~HasKey(header_map, norm)
             THEN [acc EXCEPT !.missing = Append(@, col_name)]
             ELSE [acc EXCEPT !.summaries =
                       Append(@, column_summary(sheet, header_row_index,
                                                Lookup(header_map, norm), col_name))]

Raised == [raised |-> TRUE, summaries |-> <<>>, missing |-> <<>>, available |-> <<>>]

summarize_excel_columns(sheet, cols) ==
    LET h == detect_header_row(sheet, cols)
    IN  IF ~h.found THEN Raised
        ELSE LET header_map == build_header_map(h.values, Len(h.values))
                 out == requested_loop(sheet, h.idx, header_map, cols, Len(cols))
             IN  [raised |-> FALSE,
                  summaries |-> out.summaries,
                  missing |-> out.missing,
                  available |-> Keys(header_map)]

(***************************************************************************)
(* ExcelSummaryView.post, from the decoded worksheet and column list on.   *)
(* views.py carries its own copies of detect_header_row, normalize_header  *)
(* and coerce_to_number, character for character those of excel_utils.py.  *)
(* The response serializer's CharField trims the column label.             *)
(***************************************************************************)
serialize_summary(s) ==
    [i \in 1..Len(s) |-> [s[i] EXCEPT !.column = Str(Strip(ToStr(@)))]]

\* post without the "if not requested_summaries" branch
post_no_check(sheet, cols) ==
    LET h == detect_header_row(sheet, cols)
    IN  IF ~h.found
        THEN [status |-> 400, detail |-> "Could not detect header row in the Excel sheet.",
              requested_columns |-> <<>>, available_columns |-> <<>>,
              summary |-> <<>>]
        ELSE LET header_map == build_header_map(h.values, Len(h.values))
                 out == requested_loop(sheet, h.idx, header_map, cols, Len(cols))
             IN  [status |-> 200, detail |-> "",
                  requested_columns |-> <<>>, available_columns |-> <<>>,
                  summary |-> serialize_summary(out.summaries)]

post(sheet, cols) ==
    LET h == detect_header_row(sheet, cols)
    IN  IF ~h.found
        THEN [status |-> 400, detail |-> "Could not detect header row in the Excel sheet.",
              requested_columns |-> <<>>, available_columns |-> <<>>,
              summary |-> <<>>]
        ELSE LET header_map == build_header_map(h.values, Len(h.values))
                 out == requested_loop(sheet, h.idx, header_map, cols, Len(cols))
             IN  IF out.summaries = <<>>
                 THEN [status |-> 400,
                       detail |-> "None of the requested columns were found in the sheet.",
                       requested_columns |-> cols,
                       available_columns |-> Keys(header_map),
                       summary |-> <<>>]
                 ELSE [status |-> 200, detail |-> "",
                       requested_columns |-> <<>>, available_columns |-> <<>>,
                       summary |-> serialize_summary(out.summaries)]

(***************************************************************************)
(* Inputs.                                                                 *)
(***************************************************************************)
\* every character sequence of length n over the alphabet
SeqsOfLen(alphabet, n) == [1..n -> alphabet]

CoerceAlphabet == {"1", "5", ",", ".", "$", "€", " ", "\t", "-", "a"}

CoerceExamples ==
    { <<"$", "1", ",", "2", "3", "4", ".", "5", "6">>,
      <<"9", "0", ",", "0", "0">>,
      <<" ", " ", "4", "2", " ">>,
      <<"1", ",", "2", "3", "4">>,
      <<"£", "1", "2">>,
      <<"1", " ", "0", "0", "0", ",", "5">>,
      <<"+", "7", ".">>,
      <<"1", ",", "2", ",", "3">> }

ValuePool ==
    {None, IntCell(7), IntCell(0), IntCell(0 - 3), FloatCell(2250), FloatCell(0 - 500)}
        \cup {Str(s) : s \in UNION {SeqsOfLen(CoerceAlphabet, n) : n \in 0..MaxLen}}
        \cup {Str(s) : s \in CoerceExamples}

\* rows of the generated grids: each can serve as header row and as data row
RowBlank == <<None, Str(<<>>)>>
RowSpace == <<Str(<<" ">>)>>
RowA == <<Str(<<"a">>), Str(<<"A", " ">>), IntCell(3)>>
RowB == <<Str(<<"B">>), Str(<<"$", "1", ",", "5", "0">>), Str(<<"-", "2", ".", "2", "5">>)>>

RowPool == {RowBlank, RowSpace, RowA, RowB}

Grids == UNION {[1..n -> RowPool] : n \in 0..MaxRows}

Requests ==
    { <<>>,
      <<Str(<<"a">>)>>,
      <<Str(<<" ", "A">>)>>,
      <<Str(<<"b">>), Str(<<"a">>)>>,
      <<Str(<<"a">>), Str(<<"a">>), Str(<<"b">>)>>,
      <<Str(<<"x">>), Str(<<"B", " ">>), Str(<<"3">>)>>,
      <<Str(<<" ">>)>>,
      <<Str(<<"x">>)>> }

\* the end-to-end scenario of the documentation
ScenarioGrid ==
    << <<Str(<<"N", "a", "m", "e">>),
         Str(<<"C", "U", "R", "R", "E", "N", "T", " ", "U", "S", "D">>),
         Str(<<"C", "U", "R", "R", "E", "N", "T", " ", "C", "A", "D">>)>>,
       <<Str(<<"A">>), Str(<<"1", "0", "0">>), Str(<<"5", "0">>)>>,
       <<Str(<<"B">>), Str(<<"$", "2", "0", "0", ".", "5", "0">>), Str(<<"a", "b", "c">>)>>,
       <<Str(<<"C">>), Str(<<>>), Str(<<"7", "5", ",", "2", "5">>)>> >>

ScenarioColumns ==
    << Str(<<"C", "U", "R", "R", "E", "N", "T", " ", "U", "S", "D">>),
       Str(<<"C", "U", "R", "R", "E", "N", "T", " ", "C", "A", "D">>),
       Str(<<"M", "I", "S", "S", "I", "N", "G">>) >>

Inputs == (Grids \X Requests) \cup {<<ScenarioGrid, ScenarioColumns>>}

(***************************************************************************)
(* State machine: one call of one entry point on one input.                *)
(***************************************************************************)
NoSummary == [raised |-> FALSE, summaries |-> <<>>, missing |-> <<>>, available |-> <<>>]

NoResponse == [status |-> 0, detail |-> "", requested_columns |-> <<>>,
               available_columns |-> <<>>, summary |-> <<>>]

Init ==
    /\ pc = "start"
    /\ value = None
    /\ number = NoNumber
    /\ \E in \in Inputs : ws = in[1] /\ columns = in[2]
    /\ header = NotFound
    /\ summary = NoSummary
    /\ response = NoResponse

DetectHeaderRow ==
    /\ pc = "start"
    /\ header' = detect_header_row(ws, columns)
    /\ pc' = "detected"
    /\ UNCHANGED <<value, number, ws, columns, summary, response>>

\* header records the locals header_row_index and header_row_values
SummarizeExcelColumns ==
    /\ pc = "start"
    /\ header' = detect_header_row(ws, columns)
    /\ summary' = summarize_excel_columns(ws, columns)
    /\ pc' = "summarized"
    /\ UNCHANGED <<value, number, ws, columns, response>>

Post ==
    /\ pc = "start"
    /\ header' = detect_header_row(ws, columns)
    /\ response' = post(ws, columns)
    /\ pc' = "responded"
    /\ UNCHANGED <<value, number, ws, columns, summary>>

Next == DetectHeaderRow \/ SummarizeExcelColumns \/ Post

Spec == Init /\ [][Next]_vars

\* one entry point at a time
SpecDetect == Init /\ [][DetectHeaderRow]_vars

SpecSummarize == Init /\ [][SummarizeExcelColumns]_vars

SpecPost == Init /\ [][Post]_vars

\* coerce_to_number on one cell value
InitCoerce ==
    /\ pc = "start"
    /\ value \in ValuePool
    /\ number = NoNumber
    /\ ws = <<>>
    /\ columns = <<>>
    /\ header = NotFound
    /\ summary = NoSummary
    /\ response = NoResponse

CoerceToNumber ==
    /\ pc = "start"
    /\ number' = coerce_to_number(value)
    /\ pc' = "coerced"
    /\ UNCHANGED <<value, ws, columns, header, summary, response>>

NextCoerce == CoerceToNumber

SpecCoerce == InitCoerce /\ [][NextCoerce]_vars

(***************************************************************************)
(* Vocabulary of the properties, stated on the inputs ws and columns.      *)
(***************************************************************************)
\* the rows of the sheet inside the header search window
Window == {i \in 1..Len(ws) : i <= max_header_search}

\* the normalized texts of the cells of row i
CellTexts(i) == {normalize_header(ws[i][j]) : j \in 1..Len(ws[i])}

LabelText(k) == normalize_header(columns[k])

\* request entries whose non-blank normalized label is a normalized cell of row i
Matching(i) == {k \in 1..Len(columns) : LabelText(k) # <<>> /\ LabelText(k) \in CellTexts(i)}

\* match count of row i: every entry of the request counts, repeated or not
MatchCount(i) == Cardinality(Matching(i))

\* number of distinct normalized labels matched by row i
DistinctCount(i) == Cardinality({LabelText(k) : k \in Matching(i)})

\* row i literally contains a requested label after normalization (blank included)
ContainsLabel(i) == \E k \in 1..Len(columns) : LabelText(k) \in CellTexts(i)

RawEmpty(cell) == cell = None \/ cell = Str(<<>>)

RowAllEmpty(i) == \A j \in 1..Len(ws[i]) : RawEmpty(ws[i][j])

WindowBlank == \A i \in Window : RowAllEmpty(i)

\* header is row i of the window, returned with its raw cells
Returned(i) == header.found /\ header.idx = i /\ header.values = ws[i]

\* row i is the earliest row of the window with the greatest count
EarliestGreatest(i, Count(_)) ==
    /\ i \in Window
    /\ \A j \in Window : Count(j) <= Count(i)
    /\ \A j \in Window : j < i => Count(j) < Count(i)

(***************************************************************************)
(* C1 (as stated): whenever some row of the first max_header_search rows   *)
(* contains a requested label after normalization, detect_header_row       *)
(* returns the earliest row of greatest match count among those rows.      *)
(***************************************************************************)
C1_AsStated ==
    (pc = "detected" /\ \E i \in Window : ContainsLabel(i))
        => \E i \in Window : Returned(i) /\ EarliestGreatest(i, MatchCount)

(***************************************************************************)
(* C1 (amended): whenever some row of the first max_header_search rows     *)
(* contains a requested label whose normalized text is not blank,          *)
(* detect_header_row returns the 1-based index and raw cells of the        *)
(* earliest row of greatest match count among those rows; a row after the  *)
(* search window is never returned.                                        *)
(***************************************************************************)
C1_BestRowEarliest ==
    pc = "detected" =>
        /\ (\E i \in Window : MatchCount(i) > 0)
              => \E i \in Window : Returned(i) /\ EarliestGreatest(i, MatchCount)
        /\ header.found => header.idx \in Window /\ header.values = ws[header.idx]

\* rows 2 and 3 tie on the greatest count, row 1 matches fewer, and a sixth
\* row outside the window matches as much as the best: row 2 is returned
C1_Witness ==
    /\ pc = "detected"
    /\ Len(ws) >= 6
    /\ Returned(2)
    /\ MatchCount(1) > 0 /\ MatchCount(1) < MatchCount(2)
    /\ MatchCount(3) = MatchCount(2)
    /\ MatchCount(6) >= MatchCount(2)

(***************************************************************************)
(* C2: when no row of the search window matches a requested label (the     *)
(* empty request included), detect_header_row returns the first row of     *)
(* the window with a cell not in {None, ""}; a row whose only non-empty    *)
(* cells are whitespace-only strings counts as non-empty.                  *)
(***************************************************************************)
C2_FallbackFirstNonEmpty ==
    (pc = "detected" /\ \A i \in Window : MatchCount(i) = 0)
        => \A i \in Window :
              (~RowAllEmpty(i) /\ \A j \in Window : j < i => RowAllEmpty(j))
                  => Returned(i)

\* a whitespace-only row is returned by the fallback, ahead of a later row
C2_Witness ==
    /\ pc = "detected"
    /\ header.found
    /\ \A i \in Window : MatchCount(i) = 0
    /\ \A j \in 1..Len(header.values) : normalize_header(header.values[j]) = <<>>
    /\ \E i \in Window : i > header.idx /\ CellTexts(i) # {<<>>}
    /\ \E i \in Window : i < header.idx

(***************************************************************************)
(* C9 (as stated): a row's match count is the number of distinct           *)
(* normalized requested labels among its cells, so the row returned is     *)
(* the earliest row of greatest distinct count.                            *)
(***************************************************************************)
C9_AsStated ==
    (pc = "detected" /\ \E i \in Window : DistinctCount(i) > 0)
        => \E i \in Window : Returned(i) /\ EarliestGreatest(i, DistinctCount)

\* number of entries of the request whose normalized label is t
Multiplicity(t) == Cardinality({k \in 1..Len(columns) : LabelText(k) = t})

RECURSIVE SumMultiplicity(_)
SumMultiplicity(S) ==
    IF S = {} THEN 0
    ELSE LET t == CHOOSE x \in S : TRUE
         IN  Multiplicity(t) + SumMultiplicity(S \ {t})

\* the count of row i with every label weighted by its number of occurrences
WeightedCount(i) == SumMultiplicity((CellTexts(i) \ {<<>>}) \cap {LabelText(k) : k \in 1..Len(columns)})

NoRepeatedLabel ==
    \A k1, k2 \in 1..Len(columns) : LabelText(k1) = LabelText(k2) => k1 = k2

(***************************************************************************)
(* C9 (amended): the requested labels are compared as a list: a label      *)
(* that occurs n times in the request adds n to the count of every row     *)
(* that holds it, and the row returned is the earliest row of greatest     *)
(* such weighted count; the count is the number of distinct labels only    *)
(* when no two entries of the request normalize to the same text.          *)
(***************************************************************************)
C9_RepeatedLabelsCount ==
    pc = "detected" =>
        /\ (\E i \in Window : WeightedCount(i) > 0)
              => \E i \in Window : Returned(i) /\ EarliestGreatest(i, WeightedCount)
        /\ (NoRepeatedLabel /\ \E i \in Window : DistinctCount(i) > 0)
              => \E i \in Window : Returned(i) /\ EarliestGreatest(i, DistinctCount)

\* a repeated label decides the row: the row returned is not the earliest
\* row of greatest distinct count
C9_Witness ==
    /\ pc = "detected"
    /\ ~NoRepeatedLabel
    /\ \E i \in Window :
          /\ Returned(i)
          /\ \E j \in Window : j < i /\ DistinctCount(j) = DistinctCount(i)
          /\ EarliestGreatest(i, WeightedCount)

(***************************************************************************)
(* Vocabulary of the summary properties.                                   *)
(***************************************************************************)
\* the header row chosen for the inputs: header_row_index, header_row_values
Chosen == header

\* the keys of the header map: non-blank normalized texts of the header cells
HeaderKeys ==
    {normalize_header(Chosen.values[j]) : j \in 1..Len(Chosen.values)} \ {<<>>}

FoundLabel(c) == normalize_header(c) \in HeaderKeys

MissingLabel(c) == ~FoundLabel(c)

Found(k) == FoundLabel(columns[k])

\* place of request entry k among the summaries
Position(k) == Cardinality({j \in 1..k : Found(j)})

\* 1-based place of the last header cell whose normalized text is the label
LastCell(k) ==
    CHOOSE j \in 1..Len(Chosen.values) :
        /\ normalize_header(Chosen.values[j]) = LabelText(k)
        /\ \A j2 \in 1..Len(Chosen.values) :
              normalize_header(Chosen.values[j2]) = LabelText(k) => j2 <= j

\* the rows strictly below the header row
DataRows == {r \in 1..Len(ws) : r > Chosen.idx}

\* the data rows that reach the column of entry k and hold a coercible cell
Contributing(k) ==
    {r \in DataRows : Len(ws[r]) >= LastCell(k) /\ coerce_to_number(ws[r][LastCell(k)]).ok}

RECURSIVE SumCells(_, _)
SumCells(R, j) ==
    IF R = {} THEN 0
    ELSE LET r == CHOOSE x \in R : TRUE
         IN  coerce_to_number(ws[r][j]).v + SumCells(R \ {r}, j)

Labels(s) == [i \in 1..Len(s) |-> s[i].column]

(***************************************************************************)
(* C3: summarize_excel_columns raises HeaderNotFoundError if and only if   *)
(* every cell of the first max_header_search rows is None or "", whatever  *)
(* the later rows and the request hold; then it produces no list.          *)
(***************************************************************************)
C3_RaisesIffWindowBlank ==
    pc = "summarized" =>
        /\ summary.raised <=> WindowBlank
        /\ summary.raised =>
              summary.summaries = <<>> /\ summary.missing = <<>> /\ summary.available = <<>>

\* the window is blank, a sixth row holds a requested label: the call raises
C3_Witness ==
    /\ pc = "summarized"
    /\ summary.raised
    /\ Len(ws) >= 6
    /\ Window # {}
    /\ MatchCount(6) > 0

(***************************************************************************)
(* C4: every entry of the request, repeated entries included, is either    *)
(* summarized (its normalized label is a key of the header map) or listed  *)
(* missing; both lists keep the request order and the original label, and  *)
(* a missing column does not stop the columns after it.                    *)
(***************************************************************************)
C4_RequestPartition ==
    (pc = "summarized" /\ ~summary.raised) =>
        /\ Labels(summary.summaries) = SelectSeq(columns, FoundLabel)
        /\ summary.missing = SelectSeq(columns, MissingLabel)
        /\ Len(summary.summaries) + Len(summary.missing) = Len(columns)

\* a missing column first, then a found one whose label is not normalized
C4_Witness ==
    /\ pc = "summarized"
    /\ ~summary.raised
    /\ Len(columns) >= 2
    /\ ~Found(1)
    /\ \E k \in 2..Len(columns) :
          /\ Found(k)
          /\ columns[k] # Str(LabelText(k))
          /\ summary.summaries[Position(k)].column = columns[k]

(***************************************************************************)
(* C5: a requested column found in the header row without any coercible    *)
(* cell below it still gets a summary, with sum 0.0 and average 0.0, and   *)
(* is not listed missing.                                                  *)
(***************************************************************************)
C5_NoDataGivesZero ==
    (pc = "summarized" /\ Chosen.found) =>
        /\ ~summary.raised
        /\ \A k \in 1..Len(columns) :
              (Found(k) /\ Contributing(k) = {}) =>
                  /\ Position(k) <= Len(summary.summaries)
                  /\ summary.summaries[Position(k)] =
                        [column |-> columns[k], sum |-> 0, avg |-> 0]
                  /\ \A m \in 1..Len(summary.missing) : summary.missing[m] # columns[k]

\* a found column with rows below the header, none of them coercible
C5_Witness ==
    /\ pc = "summarized"
    /\ ~summary.raised
    /\ \E k \in 1..Len(columns) :
          /\ Found(k)
          /\ Contributing(k) = {}
          /\ \E r \in DataRows : Len(ws[r]) < LastCell(k)
          /\ \E r \in DataRows : Len(ws[r]) >= LastCell(k) /\ ws[r][LastCell(k)].t = "str"
          /\ summary.summaries[Position(k)].avg = 0

(***************************************************************************)
(* C6 (as stated): on the documented grid the request CURRENT USD,         *)
(* CURRENT CAD, MISSING gives sums 300.50 and 125.25 and averages 150.25   *)
(* and 62.63.                                                              *)
(***************************************************************************)
ScenarioResult(cad_avg) ==
    [raised |-> FALSE,
     summaries |-> << [column |-> ScenarioColumns[1], sum |-> 300500, avg |-> 150250],
                      [column |-> ScenarioColumns[2], sum |-> 125250, avg |-> cad_avg] >>,
     missing |-> <<ScenarioColumns[3]>>,
     available |-> << <<"n", "a", "m", "e">>,
                      <<"c", "u", "r", "r", "e", "n", "t", " ", "u", "s", "d">>,
                      <<"c", "u", "r", "r", "e", "n", "t", " ", "c", "a", "d">> >>]

C6_AsStated ==
    (pc = "summarized" /\ ws = ScenarioGrid /\ columns = ScenarioColumns)
        => summary = ScenarioResult(62630)

(***************************************************************************)
(* C6 (amended): the same scenario gives the average 62.62 for CURRENT     *)
(* CAD: 125.25 / 2 = 62.625 is an exact tie, which round() sends to the    *)
(* even hundredth.                                                         *)
(***************************************************************************)
C6_Scenario ==
    (pc = "summarized" /\ ws = ScenarioGrid /\ columns = ScenarioColumns)
        => summary = ScenarioResult(62620)

C6_Witness ==
    /\ pc = "summarized"
    /\ ws = ScenarioGrid
    /\ columns = ScenarioColumns
    /\ Len(summary.summaries) = 2

(***************************************************************************)
(* C8: the values summed for a found column are the coercible cells at     *)
(* the index of the last header cell carrying the label, in the rows       *)
(* strictly below the header row, to the end of the grid; a short row and  *)
(* an uncoercible cell add nothing to the sum or the count.                *)
(***************************************************************************)
C8_ColumnValues ==
    (pc = "summarized" /\ ~summary.raised) =>
        \A k \in 1..Len(columns) :
            Found(k) =>
                /\ Position(k) <= Len(summary.summaries)
                /\ LET s == summary.summaries[Position(k)]
                       n == Cardinality(Contributing(k))
                       total == SumCells(Contributing(k), LastCell(k))
                   IN  /\ s.sum = IF n > 0 THEN round2(total, 1) ELSE 0
                       /\ s.avg = IF n > 0 THEN round2(total, n) ELSE 0

\* the label heads two header cells; a coercible cell sits above the header
\* row, and below it a short row, an uncoercible cell and coercible cells
C8_Witness ==
    /\ pc = "summarized"
    /\ ~summary.raised
    /\ \E k \in 1..Len(columns) :
          /\ Found(k)
          /\ \E j \in 1..(LastCell(k) - 1) : normalize_header(Chosen.values[j]) = LabelText(k)
          /\ \E r \in 1..(Chosen.idx - 1) :
                Len(ws[r]) >= LastCell(k) /\ coerce_to_number(ws[r][LastCell(k)]).ok
          /\ \E r \in DataRows : Len(ws[r]) < LastCell(k)
          /\ \E r \in DataRows \ Contributing(k) : Len(ws[r]) >= LastCell(k)
          /\ Cardinality(Contributing(k)) >= 2
          /\ summary.summaries[Position(k)].sum # 0

(***************************************************************************)
(* Vocabulary of the response properties.                                  *)
(***************************************************************************)
Success == response.status = 200 /\ response.summary # <<>>

\* places of the cells that first carry a non-blank normalized text
FirstOccurrences(row) ==
    {j \in 1..Len(row) :
        /\ normalize_header(row[j]) # <<>>
        /\ \A j2 \in 1..(j - 1) : normalize_header(row[j2]) # normalize_header(row[j])}

RECURSIVE Ascending(_)
Ascending(S) ==
    IF S = {} THEN <<>>
    ELSE LET m == CHOOSE x \in S : \A y \in S : x <= y
         IN  <<m>> \o Ascending(S \ {m})

\* the normalized header labels of a row, in order of first occurrence
KeysInOrder(row) ==
    LET places == Ascending(FirstOccurrences(row))
    IN  [i \in 1..Len(places) |-> normalize_header(row[places[i]])]

FailureShape ==
    /\ response.status = 400
    /\ response.summary = <<>>
    /\ IF WindowBlank
       THEN response.detail = "Could not detect header row in the Excel sheet."
       ELSE /\ response.detail = "None of the requested columns were found in the sheet."
            /\ response.requested_columns = columns
            /\ response.available_columns = KeysInOrder(header.values)
            /\ \E i \in Window :
                  Returned(i) /\ ~RowAllEmpty(i) /\ \A j \in Window : j < i => RowAllEmpty(j)

(***************************************************************************)
(* C10 (as stated): post succeeds, with a non-empty summary, if and only   *)
(* if a row of the first max_header_search rows holds a cell whose         *)
(* normalized text equals the normalized text of a requested label;        *)
(* otherwise it fails, with header-not-found on a blank window and else    *)
(* with none-found, the requested and the available columns.               *)
(***************************************************************************)
C10_AsStated ==
    pc = "responded" =>
        /\ Success <=> \E i \in Window : ContainsLabel(i)
        /\ ~Success => FailureShape

(***************************************************************************)
(* C10 (amended): post succeeds, with a non-empty summary, if and only if  *)
(* a row of the first max_header_search rows holds a cell whose normalized *)
(* text is not blank and equals the normalized text of a requested label;  *)
(* otherwise it fails, with header-not-found on a blank window and else    *)
(* with none-found, the requested and the available columns of the first   *)
(* non-empty row.                                                          *)
(***************************************************************************)
C10_SuccessIffMatch ==
    pc = "responded" =>
        /\ Success <=> \E i \in Window : MatchCount(i) > 0
        /\ ~Success => FailureShape

\* the only requested column is found and has rows below it, none of them
\* numeric: the request succeeds with a zero summary
C10_Witness ==
    /\ pc = "responded"
    /\ Success
    /\ Len(columns) = 1
    /\ Found(1)
    /\ DataRows # {}
    /\ Contributing(1) = {}
    /\ response.summary[1].sum = 0

(***************************************************************************)
(* Vocabulary of the coercion property.                                    *)
(***************************************************************************)
Range(s) == {s[i] : i \in 1..Len(s)}

Without(s, chars) == SelectSeq(s, LAMBDA c : c \notin chars)

Trimmed(s) ==
    LET inked == {i \in 1..Len(s) : s[i] \notin Whitespace}
    IN  IF inked = {} THEN <<>>
        ELSE SubSeq(s, CHOOSE i \in inked : \A j \in inked : i <= j,
                       CHOOSE i \in inked : \A j \in inked : j <= i)

\* the rules of the coercion in their stated order
Expected(v) ==
    CASE v.t = "none" -> NoNumber
      [] v.t = "int" -> Number(1000 * v.v)
      [] v.t = "float" -> Number(v.v)
      [] v.t = "str" ->
            LET bare == Without(Trimmed(v.s), {"$", "€", "£", " "})
                fixed == IF "," \in Range(bare) /\ "." \in Range(bare)
                         THEN Without(bare, {","})
                         ELSE [i \in 1..Len(bare) |-> IF bare[i] = "," THEN "." ELSE bare[i]]
            IN  IF Trimmed(v.s) = <<>> THEN NoNumber ELSE ParseFloat(fixed)

CommasOnly(v) == v.t = "str" /\ Len(v.s) >= 2 /\ \A i \in 1..Len(v.s) : v.s[i] = ","

(***************************************************************************)
(* C7: coerce_to_number applies its rules in the stated order: None is     *)
(* not a number, an int or float is returned as the same value, a text is  *)
(* trimmed, loses "$", "€", "£" and spaces, loses its "," when it holds    *)
(* both "," and ".", has "," turned to "." when it holds "," only, and is  *)
(* parsed as a float literal.  "$1,234.56" gives 1234.56, "90,00" gives    *)
(* 90.00, "  42 " gives 42.0, "1,234" gives 1.234 and a text of two or     *)
(* more commas is not a number.                                            *)
(***************************************************************************)
C7_CoercionRules ==
    pc = "coerced" =>
        /\ number = Expected(value)
        /\ value = Str(<<"$", "1", ",", "2", "3", "4", ".", "5", "6">>) => number = Number(1234560)
        /\ value = Str(<<"9", "0", ",", "0", "0">>) => number = Number(90000)
        /\ value = Str(<<" ", " ", "4", "2", " ">>) => number = Number(42000)
        /\ value = Str(<<"1", ",", "2", "3", "4">>) => number = Number(1234)
        /\ value = IntCell(7) => number = Number(7000)
        /\ value \in {None, Str(<<>>)} => number = NoNumber
        /\ CommasOnly(value) => number = NoNumber

C7_Witness ==
    /\ pc = "coerced"
    /\ value = Str(<<"$", "1", ",", "2", "3", "4", ".", "5", "6">>)
    /\ number = Number(1234560)

====
